---- MODULE Spec2Model ----
(***************************************************************************)
(* A model of the chess rules engine of src/src/chess.rs (move generation  *)
(* and postprocess_move) together with the part of the event loop of       *)
(* src/src/ui.rs that holds the current game, the cached legal moves and   *)
(* the pending promotion.                                                  *)
(*                                                                         *)
(* A Position is the pair <<x, y>> (file, rank).  A piece is the record    *)
(* [kind, color].  An Option<Position> is the set {} (None) or {p}         *)
(* (Some(p)).  A HashMap is a function whose domain is its key set.        *)
(* Coordinates are i8 in the source; within the bounds of this model they  *)
(* stay between -16 and 24, so no i8 arithmetic overflows.                 *)
(***************************************************************************)
EXTENDS Integers, FiniteSets, Sequences, TLC

VARIABLES
    game_data,        \* ui.rs: let mut game_data (a GameData)
    valid_moves,      \* ui.rs: let mut valid_moves (a Moves map)
    to_be_promoted,   \* ui.rs: let mut to_be_promoted (Option<Position>)
    status,           \* "running", "ended" (break 'main) or "panicked" (an unwrap on None)
    last,             \* history: the last committed move and the GameData it was applied to
    ply,              \* history: number of postprocess_move calls so far
    arena             \* environment: the positions this game's moves go between

vars == <<game_data, valid_moves, to_be_promoted, status, last, ply, arena>>

\* Longest game explored, in calls of postprocess_move.
MaxPly == 10

White == "White"
Black == "Black"
PieceColor == {Black, White}

King(color) == [kind |-> "King", color |-> color]
Queen(color) == [kind |-> "Queen", color |-> color]
Bishop(color) == [kind |-> "Bishop", color |-> color]
Knight(color) == [kind |-> "Knight", color |-> color]
Rook(color) == [kind |-> "Rook", color |-> color]
Pawn(color) == [kind |-> "Pawn", color |-> color]

get_opposite(color) == IF color = Black THEN White ELSE Black

get_color(piece) == piece.color

BOARD_SIZE == 0..7

Position(x, y) == <<x, y>>

is_valid_chess_position(position) ==
    position[1] \in BOARD_SIZE /\ position[2] \in BOARD_SIZE

None == {}
Some(v) == {v}
unwrap(opt) == CHOOSE v \in opt : TRUE

\* HashMap::contains_key
contains_key(map, k) == k \in DOMAIN map
\* HashMap::insert (adds the key or overwrites its value)
insert(map, k, v) == [q \in (DOMAIN map) \cup {k} |-> IF q = k THEN v ELSE map[q]]
\* HashMap::remove (no effect when the key is absent)
remove(map, k) == [q \in (DOMAIN map) \ {k} |-> map[q]]
\* Moves: the entry-or-insert idiom of generate_en_passant_moves and castling_common
add_move(moves, origin, destination) ==
    IF contains_key(moves, origin)
    THEN [moves EXCEPT ![origin] = @ \cup {destination}]
    ELSE insert(moves, origin, {destination})

EmptyMap == [q \in {} |-> {}]

----------------------------------------------------------------------------
(* Attack generator *)

generate_from_points(position, board, attack_positions) ==
    LET own_color == get_color(board[position])
    IN  { a \in attack_positions :
            /\ is_valid_chess_position(a)
            /\ ~(contains_key(board, a) /\ get_color(board[a]) = own_color) }

\* The loop of generate_generic_chunk from iteration i on; the generator closure
\* is Position(x + dx*(i+1), y + dy*(i+1)).
RECURSIVE generic_chunk_from(_, _, _, _, _)
generic_chunk_from(position, board, dx, dy, i) ==
    IF i \notin BOARD_SIZE THEN {}
    ELSE LET attack_pos == Position(position[1] + dx * (i + 1), position[2] + dy * (i + 1))
         IN  IF ~is_valid_chess_position(attack_pos) THEN {}
             ELSE IF contains_key(board, attack_pos)
                  THEN IF get_color(board[attack_pos]) # get_color(board[position])
                       THEN {attack_pos}
                       ELSE {}
                  ELSE {attack_pos} \cup generic_chunk_from(position, board, dx, dy, i + 1)

\* A variant of generate_generic_chunk that takes the first occupied square
\* of the ray whatever the colour of its piece.
generate_generic_chunk_with_blocker(position, board, dx, dy) ==
    { Position(position[1] + dx * k, position[2] + dy * k) :
        k \in { k \in 1..8 :
                 /\ is_valid_chess_position(Position(position[1] + dx * k, position[2] + dy * k))
                 /\ \A j \in 1..(k - 1) :
                       ~contains_key(board, Position(position[1] + dx * j, position[2] + dy * j)) } }

generate_generic_chunk(position, board, dx, dy) ==
    generic_chunk_from(position, board, dx, dy, 0)

generate_vertical_horizontal(position, board) ==
    generate_generic_chunk(position, board, -1, 0)
        \cup generate_generic_chunk(position, board, 1, 0)
        \cup generate_generic_chunk(position, board, 0, 1)
        \cup generate_generic_chunk(position, board, 0, -1)

\* A variant without the ray towards (+1, -1), for comparison with the four rays.
generate_cross_three_rays(position, board) ==
    generate_generic_chunk(position, board, -1, -1)
        \cup generate_generic_chunk(position, board, 1, 1)
        \cup generate_generic_chunk(position, board, -1, 1)

generate_cross(position, board) ==
    generate_generic_chunk(position, board, -1, -1)
        \cup generate_generic_chunk(position, board, 1, 1)
        \cup generate_generic_chunk(position, board, -1, 1)
        \cup generate_generic_chunk(position, board, 1, -1)

generate_squares_under_attack_king(board, position) ==
    generate_from_points(position, board,
        { Position(position[1] + i, position[2] + j) :
            <<i, j>> \in ((-1..1) \X (-1..1)) \ {<<0, 0>>} })

generate_squares_under_attack_queen(board, position) ==
    generate_cross(position, board) \cup generate_vertical_horizontal(position, board)

generate_squares_under_attack_bishop(board, position) ==
    generate_cross(position, board)

\* A variant without the offset (-1, +2), for comparison with the eight offsets.
generate_squares_under_attack_knight_seven_offsets(board, position) ==
    generate_from_points(position, board,
        { Position(position[1] - 2, position[2] + 1),
          Position(position[1] - 2, position[2] - 1),
          Position(position[1] + 2, position[2] + 1),
          Position(position[1] + 2, position[2] - 1),
          Position(position[1] + 1, position[2] - 2),
          Position(position[1] + 1, position[2] + 2),
          Position(position[1] - 1, position[2] - 2) })

generate_squares_under_attack_knight(board, position) ==
    generate_from_points(position, board,
        { Position(position[1] - 2, position[2] + 1),
          Position(position[1] - 2, position[2] - 1),
          Position(position[1] + 2, position[2] + 1),
          Position(position[1] + 2, position[2] - 1),
          Position(position[1] + 1, position[2] - 2),
          Position(position[1] + 1, position[2] + 2),
          Position(position[1] - 1, position[2] - 2),
          Position(position[1] - 1, position[2] + 2) })

generate_squares_under_attack_rook(board, position) ==
    generate_vertical_horizontal(position, board)

\* A variant that keeps every forward diagonal on the board, whatever stands
\* on it, for comparison with the filter of generate_from_points.
generate_squares_under_attack_pawn_any_occupancy(board, position) ==
    { a \in (IF get_color(board[position]) = White
             THEN { Position(position[1] - 1, position[2] + 1),
                    Position(position[1] + 1, position[2] + 1) }
             ELSE { Position(position[1] - 1, position[2] - 1),
                    Position(position[1] + 1, position[2] - 1) }) :
        is_valid_chess_position(a) }

generate_squares_under_attack_pawn(board, position) ==
    generate_from_points(position, board,
        IF get_color(board[position]) = White
        THEN { Position(position[1] - 1, position[2] + 1),
               Position(position[1] + 1, position[2] + 1) }
        ELSE { Position(position[1] - 1, position[2] - 1),
               Position(position[1] + 1, position[2] - 1) })

generate_squares_under_attack_for_position(board, position) ==
    IF ~contains_key(board, position) THEN {}
    ELSE LET kind == board[position].kind
         IN  CASE kind = "King" -> generate_squares_under_attack_king(board, position)
               [] kind = "Queen" -> generate_squares_under_attack_queen(board, position)
               [] kind = "Bishop" -> generate_squares_under_attack_bishop(board, position)
               [] kind = "Knight" -> generate_squares_under_attack_knight(board, position)
               [] kind = "Rook" -> generate_squares_under_attack_rook(board, position)
               [] kind = "Pawn" -> generate_squares_under_attack_pawn(board, position)

generate_squares_under_attack_for_side(board, color) ==
    UNION { generate_squares_under_attack_for_position(board, position) :
              position \in { q \in DOMAIN board : get_color(board[q]) = color } }

----------------------------------------------------------------------------
(* Pseudo-legal moves *)

\* A variant whose double step does not look at the square in between, for
\* comparison with the three conditions of the double step.
generate_moves_pawn_jumping(g, position) ==
    LET forward == IF get_color(g.board[position]) = White THEN 1 ELSE -1
        move_pos == Position(position[1], position[2] + forward)
        two_squares == Position(position[1], position[2] + 2 * forward)
    IN  (IF ~contains_key(g.board, move_pos) THEN {move_pos} ELSE {})
        \cup (IF /\ position \in g.can_move_2_squares
                 /\ ~contains_key(g.board, two_squares)
              THEN {two_squares} ELSE {})
        \cup { attack_square \in generate_squares_under_attack_pawn(g.board, position) :
                 contains_key(g.board, attack_square) }

generate_moves_pawn(g, position) ==
    LET forward == IF get_color(g.board[position]) = White THEN 1 ELSE -1
        move_pos == Position(position[1], position[2] + forward)
        two_squares == Position(position[1], position[2] + 2 * forward)
    IN  (IF ~contains_key(g.board, move_pos) THEN {move_pos} ELSE {})
        \cup (IF /\ position \in g.can_move_2_squares
                 /\ ~contains_key(g.board, two_squares)
                 /\ ~contains_key(g.board, move_pos)
              THEN {two_squares} ELSE {})
        \cup { attack_square \in generate_squares_under_attack_pawn(g.board, position) :
                 contains_key(g.board, attack_square) }

generate_default_moves(g, position) ==
    IF ~contains_key(g.board, position) THEN {}
    ELSE IF g.board[position].kind = "Pawn"
         THEN generate_moves_pawn(g, position)
         ELSE generate_squares_under_attack_for_position(g.board, position)

----------------------------------------------------------------------------
(* Legality filter *)

\* The HashMap<PieceColor, Position> of the kings on the board.  With two kings
\* of one colour the source keeps whichever the iteration visits last; CHOOSE
\* then stands for an arbitrary one (no state of this model has two).
has_king(board, color) == \E q \in DOMAIN board : board[q] = King(color)
king_of(board, color) == CHOOSE q \in DOMAIN board : board[q] = King(color)

collect_kings(board) ==
    [ color \in { c \in PieceColor : has_king(board, c) } |-> king_of(board, color) ]

\* verify_board unwraps collect_kings(new_board).get(&to_move): it panics when
\* there is no such king.
verify_board_panics(to_move, new_board) == ~has_king(new_board, to_move)

\* A variant of verify_board that accepts every board.
verify_board_accepting(to_move, new_board) == TRUE

verify_board(to_move, new_board) ==
    king_of(new_board, to_move)
        \notin generate_squares_under_attack_for_side(new_board, get_opposite(to_move))

\* The scratch board of try_make_move.
moved_board(board, start, end) ==
    insert(remove(board, start), end, board[start])

\* A variant of try_make_move that verifies the board before the move.
try_make_move_unmoved(g, start, end) ==
    verify_board(g.to_move, g.board)

try_make_move(g, start, end) ==
    verify_board(g.to_move, moved_board(g.board, start, end))

\* A variant of generate_normal_default_moves without the legality filter.
generate_normal_default_moves_unfiltered(g, moves) ==
    LET own == { q \in DOMAIN g.board : get_color(g.board[q]) = g.to_move }
        movable == { q \in own : generate_default_moves(g, q) # {} }
    IN  [ q \in (DOMAIN moves) \cup movable |->
            IF q \in movable THEN generate_default_moves(g, q) ELSE moves[q] ]

\* A variant of generate_normal_default_moves that keeps the empty move sets.
generate_normal_default_moves_keeping_empty(g, moves) ==
    LET own == { q \in DOMAIN g.board : get_color(g.board[q]) = g.to_move }
    IN  [ q \in (DOMAIN moves) \cup own |->
            IF q \in own
            THEN { piece_move \in generate_default_moves(g, q) :
                     try_make_move(g, q, piece_move) }
            ELSE moves[q] ]

generate_normal_default_moves(g, moves) ==
    LET own == { q \in DOMAIN g.board : get_color(g.board[q]) = g.to_move }
        valid_moves_of ==
            [ piece_pos \in own |->
                { piece_move \in generate_default_moves(g, piece_pos) :
                    try_make_move(g, piece_pos, piece_move) } ]
        movable == { q \in own : valid_moves_of[q] # {} }
    IN  [ q \in (DOMAIN moves) \cup movable |->
            IF q \in movable THEN valid_moves_of[q] ELSE moves[q] ]

----------------------------------------------------------------------------
(* Special moves *)

\* The two squares horizontally adjacent to the pawn that moved two squares.
pawns_that_might_capture(moved_2_squares) ==
    { Position(moved_2_squares[1] - 1, moved_2_squares[2]),
      Position(moved_2_squares[1] + 1, moved_2_squares[2]) }

\* A variant of en_passant_board that leaves the captured pawn on the board.
en_passant_board_keeping_target(board, moved_2_squares, pawn_that_might_capture, move_pos) ==
    insert(remove(board, pawn_that_might_capture),
           move_pos, board[pawn_that_might_capture])

\* The board of an en passant capture by the pawn on pawn_that_might_capture.
en_passant_board(board, moved_2_squares, pawn_that_might_capture, move_pos) ==
    insert(remove(remove(board, moved_2_squares), pawn_that_might_capture),
           move_pos, board[pawn_that_might_capture])

\* The candidates that reach verify_board: the adjacent square is on the board
\* and holds a pawn (line 176 binds that pawn's colour to a fresh, unused
\* `color`), and the colour opposite to the target pawn's is the side to move.
en_passant_candidates(g) ==
    IF g.moved_2_squares = None THEN {}
    ELSE LET moved_2_squares == unwrap(g.moved_2_squares)
         IN  IF ~(contains_key(g.board, moved_2_squares)
                    /\ g.board[moved_2_squares].kind = "Pawn")
             THEN {}
             ELSE LET opposite == get_opposite(get_color(g.board[moved_2_squares]))
                  IN  { c \in pawns_that_might_capture(moved_2_squares) :
                          /\ is_valid_chess_position(c)
                          /\ contains_key(g.board, c)
                          /\ g.board[c].kind = "Pawn"
                          /\ opposite = g.to_move }

en_passant_move_pos(g, pawn_that_might_capture) ==
    Position(unwrap(g.moved_2_squares)[1],
             pawn_that_might_capture[2] + (IF g.to_move = White THEN 1 ELSE -1))

RECURSIVE add_moves(_, _)
\* Inserts the <<origin, destination>> pairs of `pairs` into the map one by one.
add_moves(moves, pairs) ==
    IF pairs = {} THEN moves
    ELSE LET m == CHOOSE q \in pairs : TRUE
         IN  add_moves(add_move(moves, m[1], m[2]), pairs \ {m})

generate_en_passant_moves(g, moves) ==
    add_moves(moves,
        { <<c, en_passant_move_pos(g, c)>> :
            c \in { d \in en_passant_candidates(g) :
                      verify_board(g.to_move,
                          en_passant_board(g.board, unwrap(g.moved_2_squares), d,
                                           en_passant_move_pos(g, d))) } })

\* A variant of castling_common that does not read the attack set.
castling_common_unattacked(board, king_pos, final_king_pos, must_be_empty, must_not_be_attacked, attack_squares, moves) ==
    IF \E q \in must_be_empty : contains_key(board, q)
    THEN moves
    ELSE add_move(moves, king_pos, final_king_pos)

\* castling_common: rook_pos and final_rook_pos are not read by the source.
castling_common(board, king_pos, final_king_pos, must_be_empty, must_not_be_attacked, attack_squares, moves) ==
    IF \/ \E q \in must_be_empty : contains_key(board, q)
       \/ \E q \in must_not_be_attacked : q \in attack_squares
    THEN moves
    ELSE add_move(moves, king_pos, final_king_pos)

generate_castling_moves(g, moves) ==
    IF ~contains_key(g.castling, g.to_move) THEN moves
    ELSE LET castling == g.castling[g.to_move]
             king_pos == king_of(g.board, g.to_move)
             attack_squares ==
                 generate_squares_under_attack_for_side(g.board, get_opposite(g.to_move))
             king_side_moves ==
                 IF castling.king_side
                 THEN castling_common(g.board, king_pos, Position(6, king_pos[2]),
                          { Position(6, king_pos[2]), Position(5, king_pos[2]) },
                          { Position(6, king_pos[2]), Position(5, king_pos[2]) },
                          attack_squares, moves)
                 ELSE moves
         IN  IF king_pos \in attack_squares THEN moves
             ELSE IF castling.queen_side
                  THEN castling_common(g.board, king_pos, Position(2, king_pos[2]),
                           { Position(1, king_pos[2]), Position(2, king_pos[2]),
                             Position(3, king_pos[2]) },
                           { Position(2, king_pos[2]), Position(3, king_pos[2]) },
                           attack_squares, king_side_moves)
                  ELSE king_side_moves

\* generate_moves unwraps the king of the side to move in verify_board (once a
\* candidate move exists) and in generate_castling_moves (once the side has a
\* castling entry).
generate_moves_panics(g) ==
    /\ verify_board_panics(g.to_move, g.board)
    /\ \/ \E q \in DOMAIN g.board :
            get_color(g.board[q]) = g.to_move /\ generate_default_moves(g, q) # {}
       \/ en_passant_candidates(g) # {}
       \/ contains_key(g.castling, g.to_move)

generate_moves(g) ==
    generate_castling_moves(g,
        generate_en_passant_moves(g,
            generate_normal_default_moves(g, EmptyMap)))

----------------------------------------------------------------------------
(* Move applier *)

abs(n) == IF n < 0 THEN -n ELSE n

\* A variant of take_moving_piece that keeps moved_2_squares.
take_moving_piece_keeping_target(g, start) ==
    [g EXCEPT !.board = remove(@, start)]

\* new_game_data after lines 629-631: the clone without the moving piece and
\* without the en passant target.
take_moving_piece(g, start) ==
    [g EXCEPT !.board = remove(@, start), !.moved_2_squares = None]

\* Lines 637-661: the rook of a castling king move, taken from the corner of
\* the king's rank and put next to the king.
castling_rook_from(end) == IF end[1] = 6 THEN Position(7, end[2]) ELSE Position(0, end[2])
castling_rook_to(end) == IF end[1] = 6 THEN Position(end[1] - 1, end[2]) ELSE Position(end[1] + 1, end[2])

king_effects(n, g, start, end) ==
    [n EXCEPT !.castling = remove(@, g.to_move),
              !.board = IF abs(start[1] - end[1]) = 2
                        THEN insert(remove(@, castling_rook_from(end)),
                                    castling_rook_to(end), @[castling_rook_from(end)])
                        ELSE @]

\* A variant of rook_effects that assigns both flags from the origin file.
rook_effects_assigning(n, moving_piece, start) ==
    IF contains_key(n.castling, get_color(moving_piece))
    THEN [n EXCEPT !.castling[get_color(moving_piece)] =
                       [king_side |-> start[1] = 0, queen_side |-> start[1] # 0]]
    ELSE n

rook_effects(n, moving_piece, start) ==
    IF contains_key(n.castling, get_color(moving_piece))
    THEN IF start[1] = 0
         THEN [n EXCEPT !.castling[get_color(moving_piece)].queen_side = FALSE]
         ELSE [n EXCEPT !.castling[get_color(moving_piece)].king_side = FALSE]
    ELSE n

\* A variant of pawn_effects that never removes the pawn on moved_2_squares.
pawn_effects_without_capture(n, g, start, end) ==
    LET without_start == [n EXCEPT !.can_move_2_squares = @ \ {start}]
    IN  IF g.moved_2_squares = None /\ abs(start[2] - end[2]) = 2
        THEN [without_start EXCEPT !.moved_2_squares = Some(end)]
        ELSE without_start

pawn_effects(n, g, start, end) ==
    LET without_start == [n EXCEPT !.can_move_2_squares = @ \ {start}]
    IN  IF g.moved_2_squares # None
        THEN LET en_passant == unwrap(g.moved_2_squares)
             IN  IF en_passant[1] = end[1] /\ start[2] = en_passant[2]
                 THEN [without_start EXCEPT !.board = remove(@, en_passant)]
                 ELSE without_start
        ELSE IF abs(start[2] - end[2]) = 2
             THEN [without_start EXCEPT !.moved_2_squares = Some(end)]
             ELSE without_start

\* A variant of pawn_to_be_promoted that reports rank 0 only.
pawn_to_be_promoted_on_rank_0(end) ==
    IF end[2] = 0 THEN Some(end) ELSE None

pawn_to_be_promoted(end) ==
    IF end[2] = 0 \/ end[2] = 7 THEN Some(end) ELSE None

\* A variant of place_moving_piece that leaves to_move as it is.
place_moving_piece_keeping_turn(n, moving_piece, end) ==
    [n EXCEPT !.board = insert(@, end, moving_piece)]

\* Lines 689-690.
place_moving_piece(n, moving_piece, end) ==
    [n EXCEPT !.board = insert(@, end, moving_piece),
              !.to_move = get_opposite(@)]

\* The unwraps of postprocess_move: the piece on start, and the piece on the
\* corner square of a king move of two files.
postprocess_move_panics(g, start, end) ==
    \/ ~contains_key(g.board, start)
    \/ /\ g.board[start].kind = "King"
       /\ abs(start[1] - end[1]) = 2
       /\ ~contains_key(remove(g.board, start), castling_rook_from(end))

\* The pair (new_game_data, to_be_promoted) as a record.
postprocess_move(g, start, end) ==
    LET moving_piece == g.board[start]
        n == take_moving_piece(g, start)
        after == CASE moving_piece.kind = "King" -> king_effects(n, g, start, end)
                   [] moving_piece.kind = "Rook" -> rook_effects(n, moving_piece, start)
                   [] moving_piece.kind = "Pawn" -> pawn_effects(n, g, start, end)
                   [] OTHER -> n
    IN  [ game_data |-> place_moving_piece(after, moving_piece, end),
          to_be_promoted |-> IF moving_piece.kind = "Pawn"
                             THEN pawn_to_be_promoted(end) ELSE None ]

----------------------------------------------------------------------------
(* The initial GameData *)

\* A variant of back_rank with the king on file 3 and the queen on file 4.
back_rank_king_on_3(side) ==
    <<Rook(side), Knight(side), Bishop(side), King(side),
      Queen(side), Bishop(side), Knight(side), Rook(side)>>

back_rank(side) ==
    <<Rook(side), Knight(side), Bishop(side), Queen(side),
      King(side), Bishop(side), Knight(side), Rook(side)>>

\* place_pieces for one side: its part of the board.
place_pieces(side) ==
    LET y == IF side = Black THEN 7 ELSE 0
        pawn_y == IF side = Black THEN 6 ELSE 1
    IN  [ q \in { Position(x, r) : <<x, r>> \in BOARD_SIZE \X {y, pawn_y} } |->
            IF q[2] = y THEN back_rank(side)[q[1] + 1] ELSE Pawn(side) ]

\* place_pieces for one side: the squares it adds to can_move_2_squares.
place_pawn_squares(side) ==
    { Position(x, IF side = Black THEN 6 ELSE 1) : x \in BOARD_SIZE }

GameData_default ==
    [ board |-> [ q \in (DOMAIN place_pieces(White)) \cup (DOMAIN place_pieces(Black)) |->
                    IF q \in DOMAIN place_pieces(White)
                    THEN place_pieces(White)[q] ELSE place_pieces(Black)[q] ],
      castling |-> [ color \in PieceColor |-> [king_side |-> TRUE, queen_side |-> TRUE] ],
      can_move_2_squares |-> place_pawn_squares(White) \cup place_pawn_squares(Black),
      to_move |-> White,
      moved_2_squares |-> None ]

----------------------------------------------------------------------------
(* The game loop of ui.rs, seen from the engine: every entry of valid_moves  *)
(* may be committed, and a pending promotion is resolved before the legal   *)
(* moves are generated again.                                               *)

sq(file, rank) == Position(file, rank)

\* The moves committed in one game go between the positions of one arena, a
\* small part of the board.  valid_moves itself is always the complete map.
KingSideArena ==     \* both king's knights, White's e-pawn, king's bishop, king, rook
    { sq(6,0), sq(7,2), sq(6,7), sq(5,5), sq(4,1), sq(4,2), sq(6,3), sq(5,0),
      sq(5,1), sq(7,0), sq(4,0) }
HPawnArena ==        \* White's h-pawn against Black's g-pawn, knight and rook
    { sq(7,1), sq(7,3), sq(7,4), sq(7,5), sq(6,6), sq(6,4), sq(6,5), sq(6,7),
      sq(5,5), sq(7,7), sq(6,8) }
PawnsArena ==        \* the g- and h-pawns of both sides
    { sq(6,1), sq(6,3), sq(7,1), sq(7,3), sq(7,2), sq(6,2), sq(6,6), sq(6,4),
      sq(7,6), sq(7,4), sq(7,5) }
QueenRookArena ==    \* White's a-pawn and queen's rook, Black's a-pawn and knight
    { sq(0,0), sq(0,1), sq(0,3), sq(0,2), sq(1,2), sq(1,7), sq(2,5), sq(0,6),
      sq(0,4) }
Arenas == { KingSideArena, HPawnArena, PawnsArena, QueenRookArena }

PromotionKinds == {"Queen", "Rook", "Knight", "Bishop"}

Init ==
    /\ game_data = GameData_default
    /\ valid_moves = generate_moves(GameData_default)
    /\ to_be_promoted = None
    /\ status = "running"
    /\ last = None
    /\ ply = 0
    /\ arena \in Arenas

\* A variant that keeps the old map and goes on, for comparison with the
\* regeneration after a commit.
regenerate_keeping_valid_moves(new_game_data, promoted) ==
    /\ status' = "running"
    /\ to_be_promoted' = None
    /\ UNCHANGED valid_moves

\* ui.rs lines 100-104 and 128-135: generate the legal moves of the new game
\* and leave the loop when there are none.
regenerate(new_game_data, promoted) ==
    IF generate_moves_panics(new_game_data)
    THEN /\ status' = "panicked"
         /\ UNCHANGED <<valid_moves, to_be_promoted>>
    ELSE /\ valid_moves' = generate_moves(new_game_data)
         /\ status' = IF DOMAIN valid_moves' = {} THEN "ended" ELSE "running"
         /\ to_be_promoted' = IF DOMAIN valid_moves' = {} THEN promoted ELSE None

\* ui.rs lines 116-139: commit the entry start -> end of valid_moves.
\* The origin is any key of the map. The selection click (lines 144-163) only
\* selects a square holding a piece of to_move and the selection does not
\* outlive a commit, so the loop commits a subset of these entries.
Move(start, end) ==
    /\ status = "running"
    /\ to_be_promoted = None
    /\ ply < MaxPly
    /\ start \in arena /\ end \in arena
    /\ contains_key(valid_moves, start)
    /\ end \in valid_moves[start]
    /\ ply' = ply + 1
    /\ UNCHANGED arena
    /\ IF postprocess_move_panics(game_data, start, end)
       THEN /\ status' = "panicked"
            /\ UNCHANGED <<game_data, valid_moves, to_be_promoted, last>>
       ELSE LET r == postprocess_move(game_data, start, end)
            IN  /\ game_data' = r.game_data
                /\ last' = Some([start |-> start, end |-> end,
                                 piece |-> game_data.board[start], pre |-> game_data])
                /\ IF r.to_be_promoted # None
                   THEN /\ to_be_promoted' = r.to_be_promoted
                        /\ UNCHANGED <<valid_moves, status>>
                   ELSE regenerate(r.game_data, None)

\* A variant of the promotion click that gives the new piece the colour of
\* the side to move, for comparison with get_opposite.
Promote_for_side_to_move(kind) ==
    /\ status = "running"
    /\ to_be_promoted # None
    /\ LET position == unwrap(to_be_promoted)
           new_game_data ==
               [game_data EXCEPT !.board =
                   insert(remove(@, position), position,
                          [kind |-> kind, color |-> game_data.to_move])]
       IN  /\ game_data' = new_game_data
           /\ regenerate(new_game_data, to_be_promoted)
    /\ UNCHANGED <<last, ply, arena>>

\* ui.rs lines 80-111: the click that picks the promotion piece.
Promote(kind) ==
    /\ status = "running"
    /\ to_be_promoted # None
    /\ LET position == unwrap(to_be_promoted)
           opposite == get_opposite(game_data.to_move)
           new_game_data ==
               [game_data EXCEPT !.board =
                   insert(remove(@, position), position, [kind |-> kind, color |-> opposite])]
       IN  /\ game_data' = new_game_data
           /\ regenerate(new_game_data, to_be_promoted)
    /\ UNCHANGED <<last, ply, arena>>

Next ==
    \/ \E start \in arena, end \in arena : Move(start, end)
    \/ \E kind \in PromotionKinds : Promote(kind)

Spec == Init /\ [][Next]_vars

----------------------------------------------------------------------------
(* Castling on constructed positions, as test_castling builds them: the king *)
(* of the side to move on file 4 of its home rank, its rooks on the corners  *)
(* or not, any castling entry, and a few more pieces near the king's rank.   *)

\* Most pieces put on the board besides the king and the rooks.
MaxExtraPieces == 1

home_rank(color) == IF color = Black THEN 7 ELSE 0

\* The squares of the extra pieces: between king and rooks, and two ranks
\* in front of them.
extra_squares(color) ==
    { Position(file, home_rank(color)) : file \in {1, 2, 3, 5, 6} }
        \cup { Position(file, IF color = Black THEN 5 ELSE 2) : file \in 1..6 }

extra_pieces(color) ==
    { Rook(get_opposite(color)), Knight(get_opposite(color)), Knight(color) }

\* The sets of at most n placements <<position, piece>> on distinct squares.
RECURSIVE placements_upto(_, _)
placements_upto(color, n) ==
    IF n = 0 THEN { {} }
    ELSE LET fewer == placements_upto(color, n - 1)
         IN  fewer \cup
             { ps \cup { <<position, piece>> } :
                 <<ps, position, piece>> \in
                     { t \in fewer \X extra_squares(color) \X extra_pieces(color) :
                         \A a \in t[1] : a[1] # t[2] } }

placements(color) == placements_upto(color, MaxExtraPieces)

RECURSIVE insert_all(_, _)
insert_all(board, ps) ==
    IF ps = {} THEN board
    ELSE LET a == CHOOSE q \in ps : TRUE
         IN  insert_all(insert(board, a[1], a[2]), ps \ {a})

castling_entries(color) ==
    { EmptyMap } \cup
    { insert(EmptyMap, color, [king_side |-> k, queen_side |-> q]) :
        <<k, q>> \in BOOLEAN \X BOOLEAN }

castling_game(color, rook_files, castling, ps) ==
    [ board |-> insert_all(
                    insert(EmptyMap, Position(4, home_rank(color)), King(color)),
                    { <<Position(file, home_rank(color)), Rook(color)>> : file \in rook_files }
                        \cup ps),
      castling |-> castling,
      can_move_2_squares |-> {},
      to_move |-> color,
      moved_2_squares |-> None ]

\* The GameData of test_castling (lines 783-802).
test_castling_game ==
    castling_game(Black, {0, 7},
                  insert(EmptyMap, Black, [king_side |-> TRUE, queen_side |-> TRUE]), {})

InitCastling ==
    /\ \E color \in PieceColor, rook_files \in SUBSET {0, 7} :
         \E castling \in castling_entries(color), ps \in placements(color) :
            game_data = castling_game(color, rook_files, castling, ps)
    /\ valid_moves = EmptyMap
    /\ to_be_promoted = None
    /\ status = "constructed"
    /\ last = None
    /\ ply = 0
    /\ arena = {}

\* The call generate_moves(&game_data) on a constructed position.
GenerateMoves ==
    /\ status = "constructed"
    /\ regenerate(game_data, None)
    /\ UNCHANGED <<game_data, last, ply, arena>>

SpecCastling == InitCastling /\ [][GenerateMoves]_vars

----------------------------------------------------------------------------
(* En passant on constructed positions, as generate_en_passant_move_1_right  *)
(* builds them: the king of the side to move, a pawn of the other side on    *)
(* moved_2_squares, pawns next to it, and a few enemy rooks and bishops.     *)

forward(color) == IF color = White THEN 1 ELSE -1

\* The rank of a pawn that has just moved two squares against `color`.
target_rank(color) == IF color = White THEN 4 ELSE 3

TargetFiles == {0, 3, 7}

en_passant_king_squares(color) ==
    { Position(0, home_rank(color)), Position(4, home_rank(color)),
      Position(0, target_rank(color)) }

en_passant_extra_squares(color) ==
    { Position(file, target_rank(color)) : file \in {0, 2, 5, 6, 7} }
        \cup { Position(file, target_rank(color) + 2 * forward(color)) : file \in {4, 6} }

en_passant_extra_pieces(color) ==
    { Rook(get_opposite(color)), Bishop(get_opposite(color)) }

\* What stands on each square next to the target: nothing, a pawn of the side
\* to move or a pawn of the other side.
neighbour_placements(color, moved_2_squares) ==
    LET squares == { q \in pawns_that_might_capture(moved_2_squares) :
                       is_valid_chess_position(q) }
    IN  { ps \in SUBSET (squares \X { Pawn(White), Pawn(Black) }) :
            \A a \in ps, b \in ps : a[1] = b[1] => a = b }

RECURSIVE extra_placements(_, _, _)
\* The sets of at most n placements of pieces on distinct squares.
extra_placements(squares, pieces, n) ==
    IF n = 0 THEN { {} }
    ELSE LET fewer == extra_placements(squares, pieces, n - 1)
         IN  fewer \cup
             { ps \cup { <<position, piece>> } :
                 <<ps, position, piece>> \in
                     { t \in fewer \X squares \X pieces :
                         \A a \in t[1] : a[1] # t[2] } }

en_passant_game(color, king_pos, moved_2_squares, ps) ==
    [ board |-> insert_all(
                    insert(insert(EmptyMap, king_pos, King(color)),
                           moved_2_squares, Pawn(get_opposite(color))),
                    ps),
      castling |-> EmptyMap,
      can_move_2_squares |-> {},
      to_move |-> color,
      moved_2_squares |-> Some(moved_2_squares) ]

\* The GameData of generate_en_passant_move_1_right (lines 705-718).
test_en_passant_game ==
    en_passant_game(White, Position(0, 0), Position(7, 4), { <<Position(6, 4), Pawn(White)>> })

InitEnPassant ==
    /\ \E color \in PieceColor, file \in TargetFiles :
         LET moved_2_squares == Position(file, target_rank(color))
         IN  \E king_pos \in en_passant_king_squares(color) \ {moved_2_squares},
                neighbours \in neighbour_placements(color, moved_2_squares),
                extras \in extra_placements(en_passant_extra_squares(color),
                                            en_passant_extra_pieces(color), MaxExtraPieces) :
                /\ \A a \in neighbours : a[1] # king_pos
                /\ \A a \in extras :
                      /\ a[1] \notin {king_pos, moved_2_squares}
                      /\ \A b \in neighbours : a[1] # b[1]
                /\ game_data = en_passant_game(color, king_pos, moved_2_squares,
                                               neighbours \cup extras)
    /\ valid_moves = EmptyMap
    /\ to_be_promoted = None
    /\ status = "constructed"
    /\ last = None
    /\ ply = 0
    /\ arena = {}

SpecEnPassant == InitEnPassant /\ [][GenerateMoves]_vars

----------------------------------------------------------------------------
(* Legal moves on constructed positions, as test_king_under_attack builds    *)
(* them: the king of the side to move on file 4 of its home rank and a few   *)
(* pieces of both sides on the squares around it.                            *)

\* Most pieces put on the board besides the king.
MaxPieces == 2

around_king_squares(color) ==
    { Position(file, home_rank(color) + k * forward(color)) :
        <<file, k>> \in ({3, 4, 5} \X {0, 1, 2}) \ {<<4, 0>>} }

around_king_pieces(color) ==
    { Queen(get_opposite(color)), Knight(get_opposite(color)), Pawn(get_opposite(color)),
      Rook(color), Pawn(color) }

\* The pawns of `color` on the rank place_pieces puts them on.
start_rank_pawns(board, color) ==
    { q \in DOMAIN board :
        board[q] = Pawn(color) /\ q[2] = home_rank(color) + forward(color) }

around_king_game(color, ps) ==
    LET board == insert_all(insert(EmptyMap, Position(4, home_rank(color)), King(color)), ps)
    IN  [ board |-> board,
          castling |-> EmptyMap,
          can_move_2_squares |-> start_rank_pawns(board, color),
          to_move |-> color,
          moved_2_squares |-> None ]

InitKingUnderAttack ==
    /\ \E color \in PieceColor :
         \E ps \in extra_placements(around_king_squares(color),
                                    around_king_pieces(color), MaxPieces) :
            game_data = around_king_game(color, ps)
    /\ valid_moves = EmptyMap
    /\ to_be_promoted = None
    /\ status = "constructed"
    /\ last = None
    /\ ply = 0
    /\ arena = {}

SpecKingUnderAttack == InitKingUnderAttack /\ [][GenerateMoves]_vars

----------------------------------------------------------------------------
(* Sliding pieces on constructed positions, as the tests of                  *)
(* generate_vertical_horizontal, test_rooks, test_bishops and test_queen     *)
(* build them: a rook, bishop or queen of the side to move, its king, and a  *)
(* few knights of both sides on the rays.                                    *)

SliderKinds == {"Rook", "Bishop", "Queen"}

SliderSquares == { Position(3, 3), Position(0, 3) }

slider_king_square == Position(7, 7)

blocker_squares ==
    { Position(1, 3), Position(4, 3), Position(6, 3),
      Position(3, 1), Position(3, 4), Position(3, 6), Position(0, 5),
      Position(1, 1), Position(4, 4), Position(5, 5),
      Position(2, 4), Position(4, 2), Position(1, 2), Position(2, 5) }

blocker_pieces == { Knight(White), Knight(Black) }

slider_game(color, kind, position, ps) ==
    [ board |-> insert_all(
                    insert(insert(EmptyMap, slider_king_square, King(color)),
                           position, [kind |-> kind, color |-> color]),
                    ps),
      castling |-> EmptyMap,
      can_move_2_squares |-> {},
      to_move |-> color,
      moved_2_squares |-> None ]

InitSliders ==
    /\ \E color \in PieceColor, kind \in SliderKinds, position \in SliderSquares :
         \E ps \in extra_placements(blocker_squares \ {position}, blocker_pieces, MaxPieces) :
            game_data = slider_game(color, kind, position, ps)
    /\ valid_moves = EmptyMap
    /\ to_be_promoted = None
    /\ status = "constructed"
    /\ last = None
    /\ ply = 0
    /\ arena = {}

SpecSliders == InitSliders /\ [][GenerateMoves]_vars

----------------------------------------------------------------------------
(* Properties *)

\* valid_moves is generate_moves(game_data): always, except while a promotion
\* is pending or after a panic.
Fresh == status \in {"running", "ended"} /\ (to_be_promoted = None \/ status = "ended")

Committed == last # None
LastMove == unwrap(last)

\* The mover's king is on the board and outside the opposing side's attack set.
king_safe(board, color) ==
    /\ has_king(board, color)
    /\ king_of(board, color)
         \notin generate_squares_under_attack_for_side(board, get_opposite(color))

C2_NoAbort ==
    /\ status # "panicked"
    /\ Fresh =>
         \A start \in DOMAIN valid_moves : \A end \in valid_moves[start] :
            ~postprocess_move_panics(game_data, start, end)

\* C3: every origin key of the legal-move map holds a piece of the side to move.
C3_OriginsBelongToMover ==
    Fresh =>
        \A start \in DOMAIN valid_moves :
            /\ contains_key(game_data.board, start)
            /\ get_color(game_data.board[start]) = game_data.to_move

\* C4: every position of the board, of can_move_2_squares, of moved_2_squares
\* and of the legal-move map has file and rank in 0..7.
C4_AllPositionsInBounds ==
    /\ \A q \in DOMAIN game_data.board : is_valid_chess_position(q)
    /\ \A q \in game_data.can_move_2_squares : is_valid_chess_position(q)
    /\ \A q \in game_data.moved_2_squares : is_valid_chess_position(q)
    /\ Fresh =>
         \A start \in DOMAIN valid_moves :
            /\ is_valid_chess_position(start)
            /\ \A end \in valid_moves[start] : is_valid_chess_position(end)

\* The colour whose pawns start on the rank of q.
home_pawn(q) == Pawn(IF q[2] = 1 THEN White ELSE Black)

\* C5: every position of can_move_2_squares holds a pawn that has never moved
\* (a pawn of the colour that starts on that rank: no pawn returns to it).
C5_DoubleStepEligibleNeverMoved ==
    \A q \in game_data.can_move_2_squares :
        contains_key(game_data.board, q) /\ game_data.board[q] = home_pawn(q)

\* The en passant capture as the move applier recognises it.
is_en_passant_capture(m) ==
    /\ m.piece.kind = "Pawn"
    /\ m.pre.moved_2_squares # None
    /\ unwrap(m.pre.moved_2_squares)[1] = m.end[1]
    /\ m.start[2] = unwrap(m.pre.moved_2_squares)[2]

is_double_step(m) ==
    m.piece.kind = "Pawn" /\ abs(m.start[2] - m.end[2]) = 2

\* C6: after a pawn move of two ranks that is no en passant capture,
\* moved_2_squares is the destination, whatever it was before the move.
C6_DoubleStepSetsTarget ==
    (Committed /\ is_double_step(LastMove) /\ ~is_en_passant_capture(LastMove)) =>
        game_data.moved_2_squares = Some(LastMove.end)

\* C7: after a move, moved_2_squares is set only if that move was a pawn move
\* of two ranks, and then it is that move's destination and not the target of
\* before the move; so the en passant moves offered capture the pawn that
\* moved last.
C7_TargetOnlyFromLastDoubleStep ==
    Committed =>
        /\ game_data.moved_2_squares # None =>
              /\ is_double_step(LastMove)
              /\ game_data.moved_2_squares = Some(LastMove.end)
              /\ game_data.moved_2_squares # LastMove.pre.moved_2_squares
        /\ (Fresh /\ DOMAIN generate_en_passant_moves(game_data, EmptyMap) # {}) =>
              /\ is_double_step(LastMove)
              /\ game_data.moved_2_squares = Some(LastMove.end)

\* C7 witness: a move has dropped the target of the ply before it, and later a
\* pawn moved two ranks and en passant is offered against it.
C7_Witness ==
    /\ Fresh /\ Committed /\ ply >= 3
    /\ game_data.moved_2_squares = Some(LastMove.end)
    /\ DOMAIN generate_en_passant_moves(game_data, EmptyMap) # {}

available(castling, color, side) ==
    contains_key(castling, color) /\ castling[color][side]

Sides == {"king_side", "queen_side"}

\* castling with one right of one colour cleared (nothing when it has no entry).
cleared(castling, color, side) ==
    IF contains_key(castling, color)
    THEN [castling EXCEPT ![color][side] = FALSE]
    ELSE castling

\* C8: a rook move from file 0 clears only the queen-side right of its colour,
\* from file 7 only the king-side right, from any other file nothing.
C8_RookRightsByFile ==
    (Committed /\ LastMove.piece.kind = "Rook") =>
        game_data.castling =
            CASE LastMove.start[1] = 0 ->
                    cleared(LastMove.pre.castling, LastMove.piece.color, "queen_side")
              [] LastMove.start[1] = 7 ->
                    cleared(LastMove.pre.castling, LastMove.piece.color, "king_side")
              [] OTHER -> LastMove.pre.castling

\* C9: a castling right that is unavailable stays unavailable.
C9_RightsNeverReset ==
    [][ \A color \in PieceColor, side \in Sides :
          ~available(game_data.castling, color, side)
              => ~available(game_data'.castling, color, side) ]_vars

\* C9 witness: a rook moved whose colour had already lost a right, and the
\* right is still lost.
C9_Witness ==
    /\ Committed
    /\ LastMove.piece.kind = "Rook"
    /\ \E side \in Sides :
          /\ ~available(LastMove.pre.castling, LastMove.piece.color, side)
          /\ ~available(game_data.castling, LastMove.piece.color, side)

\* The conditions under which the king on king_pos may castle to `file`.
may_castle(g, king_pos, side) ==
    LET attack_squares ==
            generate_squares_under_attack_for_side(g.board, get_opposite(g.to_move))
        rank == king_pos[2]
        empty_files == IF side = "king_side" THEN {5, 6} ELSE {1, 2, 3}
        safe_files == IF side = "king_side" THEN {5, 6} ELSE {2, 3}
    IN  /\ available(g.castling, g.to_move, side)
        /\ king_pos \notin attack_squares
        /\ \A file \in empty_files : ~contains_key(g.board, Position(file, rank))
        /\ \A file \in safe_files : Position(file, rank) \notin attack_squares

offered(moves, start, end) == contains_key(moves, start) /\ end \in moves[start]

\* C10: with the king of the side to move on file 4, the legal-move map holds
\* its move to file 6 (file 2) of its rank iff the king-side (queen-side) right
\* is available, the king is not attacked, files 5-6 (1-3) of the rank are
\* empty and files 5-6 (2-3) are not attacked; and on the position of
\* test_castling the castling generator gives exactly the moves to files 6, 2.
C10_CastlingOfferedIff ==
    /\ (Fresh /\ has_king(game_data.board, game_data.to_move)
              /\ king_of(game_data.board, game_data.to_move)[1] = 4) =>
          LET king_pos == king_of(game_data.board, game_data.to_move)
          IN  /\ offered(valid_moves, king_pos, Position(6, king_pos[2]))
                    <=> may_castle(game_data, king_pos, "king_side")
              /\ offered(valid_moves, king_pos, Position(2, king_pos[2]))
                    <=> may_castle(game_data, king_pos, "queen_side")
    /\ generate_castling_moves(test_castling_game, EmptyMap)
          = insert(EmptyMap, Position(4, 7), { Position(6, 7), Position(2, 7) })

\* C10 witness: queen-side castling is offered although file 1 of the rank is
\* attacked, and king-side castling is not.
C10_Witness ==
    /\ Fresh
    /\ LET king_pos == king_of(game_data.board, game_data.to_move)
       IN  /\ king_pos[1] = 4
           /\ offered(valid_moves, king_pos, Position(2, king_pos[2]))
           /\ ~offered(valid_moves, king_pos, Position(6, king_pos[2]))
           /\ Position(1, king_pos[2]) \in
                 generate_squares_under_attack_for_side(game_data.board,
                                                        get_opposite(game_data.to_move))

\* The castling entries of one colour are the same in two castling maps.
same_rights(castling, other, color) ==
    /\ contains_key(castling, color) <=> contains_key(other, color)
    /\ contains_key(castling, color) => castling[color] = other[color]

\* C11: a king move leaves no castling right to the king's colour and leaves
\* the other colour's rights as they were; a king move of two files moves the
\* rook of the king's colour from file 7 to file 5 (king on file 6) or from
\* file 0 to file 3 (king on file 2) of the king's rank and empties the corner.
C11_KingMoveEffects ==
    (Committed /\ LastMove.piece.kind = "King") =>
        LET color == LastMove.piece.color
            rank == LastMove.end[2]
            corner == IF LastMove.end[1] = 6 THEN Position(7, rank) ELSE Position(0, rank)
            beside == IF LastMove.end[1] = 6 THEN Position(5, rank) ELSE Position(3, rank)
        IN  /\ \A side \in Sides : ~available(game_data.castling, color, side)
            /\ same_rights(game_data.castling, LastMove.pre.castling, get_opposite(color))
            /\ abs(LastMove.start[1] - LastMove.end[1]) = 2 =>
                  /\ LastMove.end[1] \in {2, 6}
                  /\ contains_key(LastMove.pre.board, corner)
                  /\ LastMove.pre.board[corner] = Rook(color)
                  /\ contains_key(game_data.board, beside)
                  /\ game_data.board[beside] = Rook(color)
                  /\ ~contains_key(game_data.board, corner)

\* C12: when moved_2_squares holds a pawn of the side not to move, a pawn of
\* the side to move next to it is offered the square on the target's file one
\* rank ahead of itself iff the board without the target pawn and with the
\* capturing pawn on that square leaves the mover's king unattacked; and on
\* the position of generate_en_passant_move_1_right the generator gives
\* exactly (6,4) -> {(7,5)}.
C12_EnPassantOfferedIff ==
    /\ (Fresh /\ game_data.moved_2_squares # None) =>
          LET target == unwrap(game_data.moved_2_squares)
              board == game_data.board
              color == game_data.to_move
          IN  (contains_key(board, target) /\ board[target] = Pawn(get_opposite(color))) =>
                \A file \in {target[1] - 1, target[1] + 1} :
                    LET pawn == Position(file, target[2])
                        destination == Position(target[1], target[2] + forward(color))
                    IN  (contains_key(board, pawn) /\ board[pawn] = Pawn(color)) =>
                          (offered(generate_en_passant_moves(game_data, EmptyMap),
                                   pawn, destination)
                             <=> king_safe(
                                   [q \in ((DOMAIN board) \ {target, pawn}) \cup {destination}
                                      |-> IF q = destination THEN Pawn(color) ELSE board[q]],
                                   color))
    /\ generate_en_passant_moves(test_en_passant_game, EmptyMap)
          = insert(EmptyMap, Position(6, 4), { Position(7, 5) })

\* C12 witness: the king of the side to move is not attacked, and a pawn of
\* that side next to the target is offered no en passant capture because the
\* capture would open the rank onto the king.
C12_Witness ==
    /\ Fresh /\ game_data.moved_2_squares # None
    /\ LET target == unwrap(game_data.moved_2_squares)
           color == game_data.to_move
       IN  /\ king_safe(game_data.board, color)
           /\ king_of(game_data.board, color)[2] = target[2]
           /\ \E file \in {target[1] - 1, target[1] + 1} :
                 /\ contains_key(game_data.board, Position(file, target[2]))
                 /\ game_data.board[Position(file, target[2])] = Pawn(color)
                 /\ ~offered(valid_moves, Position(file, target[2]),
                             Position(target[1], target[2] + forward(color)))

\* C13: a move removes the piece on the moved_2_squares of before the move
\* exactly when it is a pawn move to the target's file from the target's
\* rank; after any other move that square holds what it held, unless it is
\* the destination.
C13_TargetPawnRemovedIffEnPassant ==
    (Committed /\ LastMove.pre.moved_2_squares # None) =>
        LET target == unwrap(LastMove.pre.moved_2_squares)
        IN  /\ contains_key(LastMove.pre.board, target)
            /\ IF /\ LastMove.piece.kind = "Pawn"
                  /\ LastMove.end[1] = target[1]
                  /\ LastMove.start[2] = target[2]
               THEN ~contains_key(game_data.board, target)
               ELSE \/ target = LastMove.end
                    \/ /\ contains_key(game_data.board, target)
                       /\ game_data.board[target] = LastMove.pre.board[target]

\* C13 witness: a pawn has captured en passant: it moved to an empty square
\* of another file and the pawn on moved_2_squares is gone.
C13_Witness ==
    /\ Committed
    /\ LastMove.piece.kind = "Pawn"
    /\ LastMove.start[1] # LastMove.end[1]
    /\ ~contains_key(LastMove.pre.board, LastMove.end)
    /\ LastMove.piece.color = LastMove.pre.to_move
    /\ LastMove.pre.moved_2_squares # None
    /\ ~contains_key(game_data.board, unwrap(LastMove.pre.moved_2_squares))

\* The destinations of the map for one origin (none when it is no key).
moves_of(moves, start) == IF contains_key(moves, start) THEN moves[start] ELSE {}

\* The en passant and castling destinations of one origin.
special_moves_of(g, start) ==
    moves_of(generate_en_passant_moves(g, EmptyMap), start)
        \cup moves_of(generate_castling_moves(g, EmptyMap), start)

\* The GameData of test_king_under_attack and test_king_under_attack_unreachable.
king_and_queen_game(queen_pos) ==
    [ board |-> insert(insert(EmptyMap, Position(4, 7), King(Black)), queen_pos, Queen(White)),
      castling |-> EmptyMap,
      can_move_2_squares |-> {},
      to_move |-> Black,
      moved_2_squares |-> None ]

\* C14: for a piece of the side to move, a destination that is no en passant
\* and no castling move is in the legal-move map iff it is a pseudo-legal
\* destination of the piece and the board with the piece moved there leaves
\* the mover's king unattacked; the Black king on (4,7) may capture the White
\* queen on (4,6) and may not step to (4,6) when the queen stands on (3,5).
C14_LegalIffKingSurvives ==
    /\ Fresh =>
         \A start \in DOMAIN game_data.board :
            get_color(game_data.board[start]) = game_data.to_move =>
                moves_of(valid_moves, start) \ special_moves_of(game_data, start)
                  = { end \in generate_default_moves(game_data, start) :
                        king_safe(moved_board(game_data.board, start, end),
                                  game_data.to_move) }
                      \ special_moves_of(game_data, start)
    /\ offered(generate_moves(king_and_queen_game(Position(4, 6))),
               Position(4, 7), Position(4, 6))
    /\ ~offered(generate_moves(king_and_queen_game(Position(3, 5))),
                Position(4, 7), Position(4, 6))

\* C14 witness: the king of the side to move is attacked by a queen next to
\* it, may capture her, and has a pseudo-legal destination that is not in the
\* map.
C14_Witness ==
    /\ Fresh
    /\ LET king == king_of(game_data.board, game_data.to_move)
       IN  /\ ~king_safe(game_data.board, game_data.to_move)
           /\ \E end \in moves_of(valid_moves, king) :
                 /\ contains_key(game_data.board, end)
                 /\ game_data.board[end] = Queen(get_opposite(game_data.to_move))
           /\ generate_default_moves(game_data, king) \ moves_of(valid_moves, king) # {}

C16_NoEmptyEntries ==
    Fresh => \A start \in DOMAIN valid_moves : valid_moves[start] # {}

\* C16 witness: a piece of the side to move has pseudo-legal destinations,
\* none of them legal, and is no key of the map.
C16_Witness ==
    /\ Fresh
    /\ \E start \in DOMAIN game_data.board :
          /\ get_color(game_data.board[start]) = game_data.to_move
          /\ generate_default_moves(game_data, start) # {}
          /\ ~contains_key(valid_moves, start)

StandardBackRank ==
    <<"Rook", "Knight", "Bishop", "Queen", "King", "Bishop", "Knight", "Rook">>

\* C17: the initial state has the 32 pieces of the standard placement, both
\* castling rights of both colours, no moved_2_squares, White to move, and
\* the 16 pawn squares in can_move_2_squares.
C17_InitialState ==
    (ply = 0 /\ status = "running") =>
        /\ DOMAIN game_data.board = { Position(x, y) : <<x, y>> \in (0..7) \X {0, 1, 6, 7} }
        /\ Cardinality(DOMAIN game_data.board) = 32
        /\ \A x \in 0..7 :
              /\ game_data.board[Position(x, 0)] = [kind |-> StandardBackRank[x + 1], color |-> White]
              /\ game_data.board[Position(x, 7)] = [kind |-> StandardBackRank[x + 1], color |-> Black]
              /\ game_data.board[Position(x, 1)] = [kind |-> "Pawn", color |-> White]
              /\ game_data.board[Position(x, 6)] = [kind |-> "Pawn", color |-> Black]
        /\ \A color \in PieceColor, side \in Sides : available(game_data.castling, color, side)
        /\ game_data.moved_2_squares = None
        /\ game_data.to_move = White
        /\ game_data.can_move_2_squares = { Position(x, y) : <<x, y>> \in (0..7) \X {1, 6} }
        /\ Cardinality(game_data.can_move_2_squares) = 16

\* C17 witness: the initial state, whose legal-move map has the ten movable
\* pieces of White.
C17_Witness ==
    /\ ply = 0 /\ status = "running" /\ last = None
    /\ Cardinality(DOMAIN valid_moves) = 10
    /\ Cardinality(DOMAIN game_data.board) = 32

\* A step that commits a move with postprocess_move.
Commits == ply' = ply + 1 /\ status' # "panicked"

\* C18: a committed move empties the origin, puts the moved piece, as it was,
\* on the destination and gives the turn to the other side; a move of a
\* queen, a bishop or a knight changes no other square of the board, no
\* castling right and not can_move_2_squares.
C18_MoveFrame ==
    [][ Commits =>
          LET move == unwrap(last')
          IN  /\ move.pre = game_data
              /\ ~contains_key(game_data'.board, move.start)
              /\ contains_key(game_data'.board, move.end)
              /\ game_data'.board[move.end] = game_data.board[move.start]
              /\ game_data'.to_move = get_opposite(game_data.to_move)
              /\ game_data.board[move.start].kind \in {"Queen", "Bishop", "Knight"} =>
                    /\ \A q \in ((DOMAIN game_data.board) \cup (DOMAIN game_data'.board))
                                  \ {move.start, move.end} :
                          /\ contains_key(game_data.board, q)
                          /\ contains_key(game_data'.board, q)
                          /\ game_data'.board[q] = game_data.board[q]
                    /\ game_data'.castling = game_data.castling
                    /\ game_data'.can_move_2_squares = game_data.can_move_2_squares ]_vars

\* C18 witness: a bishop has moved, and a knight has captured a pawn on the
\* square it started the game on.
C18_Witness ==
    /\ Committed
    /\ LastMove.piece.kind = "Knight"
    /\ contains_key(LastMove.pre.board, LastMove.end)
    /\ LastMove.end \in LastMove.pre.can_move_2_squares
    /\ \E q \in DOMAIN game_data.board :
          game_data.board[q] = Bishop(White) /\ q[2] # 0

\* C19: a committed move reports to_be_promoted = destination iff the moved
\* piece is a pawn and the destination is on rank 0 or 7, and then the
\* destination holds a pawn of the colour that moved; any other move reports
\* none.
C19_PromotionReported ==
    [][ Commits =>
          LET move == unwrap(last')
              promotes == move.piece.kind = "Pawn" /\ move.end[2] \in {0, 7}
          IN  /\ promotes => to_be_promoted' = Some(move.end)
              /\ ~promotes => to_be_promoted' = None
              /\ promotes => game_data'.board[move.end] = Pawn(game_data.to_move) ]_vars

\* C19 witness: a pawn has reached the last rank and its promotion is pending.
C19_Witness ==
    /\ Committed
    /\ to_be_promoted = Some(LastMove.end)
    /\ LastMove.piece.kind = "Pawn"
    /\ game_data.board[LastMove.end].kind = "Pawn"

\* The directions of the rays of a rook, a bishop and a queen.
Straight == { <<-1, 0>>, <<1, 0>>, <<0, 1>>, <<0, -1>> }
Diagonal == { <<-1, -1>>, <<1, 1>>, <<-1, 1>>, <<1, -1>> }
ray_directions(kind) ==
    CASE kind = "Rook" -> Straight
      [] kind = "Bishop" -> Diagonal
      [] kind = "Queen" -> Straight \cup Diagonal

\* The k-th square of the ray from position in direction d.
ray_square(position, d, k) == Position(position[1] + d[1] * k, position[2] + d[2] * k)

\* C20: the attack set of a rook, bishop or queen holds, on each of its rays,
\* every empty square up to the first occupied one, that one iff its piece is
\* of the other colour, and nothing beyond it; and it holds nothing else.
C20_SlidingRays ==
    Fresh =>
        \A position \in DOMAIN game_data.board :
            game_data.board[position].kind \in SliderKinds =>
                LET board == game_data.board
                    attack == generate_squares_under_attack_for_position(board, position)
                    directions == ray_directions(board[position].kind)
                IN  /\ \A d \in directions, k \in 1..7 :
                          LET square == ray_square(position, d, k)
                          IN  square \in attack <=>
                                /\ is_valid_chess_position(square)
                                /\ \A j \in 1..(k - 1) :
                                      ~contains_key(board, ray_square(position, d, j))
                                /\ contains_key(board, square) =>
                                      get_color(board[square]) # get_color(board[position])
                    /\ attack \subseteq
                          { ray_square(position, d, k) : <<d, k>> \in directions \X (1..7) }

\* C20 witness: a queen has a ray that ends on a piece of the other colour,
\* which is in her attack set while the square behind it is not, and a ray
\* that ends before a piece of her own colour.
C20_Witness ==
    /\ Fresh
    /\ \E position \in DOMAIN game_data.board :
          LET board == game_data.board
              attack == generate_squares_under_attack_for_position(board, position)
          IN  /\ board[position].kind = "Queen"
              /\ \E d \in Straight \cup Diagonal, k \in 2..6 :
                    /\ ray_square(position, d, k) \in attack
                    /\ contains_key(board, ray_square(position, d, k))
                    /\ is_valid_chess_position(ray_square(position, d, k + 1))
                    /\ ray_square(position, d, k + 1) \notin attack
              /\ \E d \in Straight \cup Diagonal, k \in 2..6 :
                    /\ ray_square(position, d, k - 1) \in attack
                    /\ contains_key(board, ray_square(position, d, k))
                    /\ get_color(board[ray_square(position, d, k)]) = get_color(board[position])
                    /\ ray_square(position, d, k) \notin attack

\* The eight L-shaped offsets of a knight.
KnightOffsets ==
    { <<1, 2>>, <<1, -2>>, <<-1, 2>>, <<-1, -2>>,
      <<2, 1>>, <<2, -1>>, <<-2, 1>>, <<-2, -1>> }

\* C21: the attack set of a knight is exactly the squares at the eight
\* L-shaped offsets that are on the board and do not hold a piece of the
\* knight's colour, whatever stands on any other square.
C21_KnightAttackSet ==
    Fresh =>
        \A position \in DOMAIN game_data.board :
            game_data.board[position].kind = "Knight" =>
                LET board == game_data.board
                IN  generate_squares_under_attack_for_position(board, position) =
                        { square \in { Position(position[1] + o[1], position[2] + o[2]) :
                                          o \in KnightOffsets } :
                            /\ is_valid_chess_position(square)
                            /\ contains_key(board, square) =>
                                  get_color(board[square]) # get_color(board[position]) }

\* C21 witness: a knight with one L-offset off the board, one on a piece of
\* its own colour (left out), one on a piece of the other colour (attacked),
\* and a piece right next to it that changes nothing.
C21_Witness ==
    /\ Fresh
    /\ \E position \in DOMAIN game_data.board :
          LET board == game_data.board
              attack == generate_squares_under_attack_for_position(board, position)
              at(o) == Position(position[1] + o[1], position[2] + o[2])
          IN  /\ board[position].kind = "Knight"
              /\ \E o \in KnightOffsets : ~is_valid_chess_position(at(o))
              /\ \E o \in KnightOffsets :
                    /\ contains_key(board, at(o))
                    /\ get_color(board[at(o)]) = get_color(board[position])
                    /\ at(o) \notin attack
              /\ \E o \in KnightOffsets :
                    /\ contains_key(board, at(o))
                    /\ get_color(board[at(o)]) # get_color(board[position])
                    /\ at(o) \in attack
              /\ Cardinality(attack) >= 4

\* The positions of test_rooks, test_bishops and test_queen: Black to move,
\* the Black king on (4,7) and the given Black pieces.
test_pieces_game(castling, ps) ==
    [ board |-> insert_all(insert(EmptyMap, Position(4, 7), King(Black)), ps),
      castling |-> castling,
      can_move_2_squares |-> {},
      to_move |-> Black,
      moved_2_squares |-> None ]

test_rooks_game ==
    test_pieces_game(insert(EmptyMap, Black, [king_side |-> TRUE, queen_side |-> TRUE]),
                     { <<Position(7, 7), Rook(Black)>>, <<Position(0, 7), Rook(Black)>> })

test_bishops_game ==
    test_pieces_game(EmptyMap,
                     { <<Position(7, 7), Bishop(Black)>>, <<Position(0, 7), Bishop(Black)>> })

test_queen_game ==
    test_pieces_game(EmptyMap, { <<Position(4, 4), Queen(Black)>> })

\* The maps the three tests get from generate_moves.
test_rooks_moves == generate_moves(test_rooks_game)

test_bishops_moves == generate_moves(test_bishops_game)

test_queen_moves == generate_moves(test_queen_game)

\* The empty squares on the rays of the slider on position up to the first
\* occupied square.
free_ray_squares(board, position) ==
    { square \in { ray_square(position, d, k) :
                     <<d, k>> \in ray_directions(board[position].kind) \X (1..7) } :
        /\ is_valid_chess_position(square)
        /\ \E d \in ray_directions(board[position].kind), k \in 1..7 :
              /\ square = ray_square(position, d, k)
              /\ \A j \in 1..k : ~contains_key(board, ray_square(position, d, j)) }

\* No piece of the side that is not to move stands on the board.
no_opposing_pieces(g) ==
    \A position \in DOMAIN g.board : get_color(g.board[position]) = g.to_move

\* C22: on a board without opposing pieces a rook, bishop or queen has as
\* many legal destinations as there are empty squares on its rays before the
\* first piece; in the test positions that is 9 and 10 for the rooks on (7,7)
\* and (0,7), 7 and 7 for the bishops there, and 26 for the queen on (4,4).
C22_SliderMobility ==
    /\ Cardinality(moves_of(test_rooks_moves, Position(7, 7))) = 9
    /\ Cardinality(moves_of(test_rooks_moves, Position(0, 7))) = 10
    /\ Cardinality(moves_of(test_bishops_moves, Position(7, 7))) = 7
    /\ Cardinality(moves_of(test_bishops_moves, Position(0, 7))) = 7
    /\ Cardinality(moves_of(test_queen_moves, Position(4, 4))) = 26
    /\ (Fresh /\ no_opposing_pieces(game_data)) =>
          \A position \in DOMAIN game_data.board :
              game_data.board[position].kind \in SliderKinds =>
                  /\ moves_of(valid_moves, position) = free_ray_squares(game_data.board, position)
                  /\ Cardinality(moves_of(valid_moves, position)) =
                        Cardinality(free_ray_squares(game_data.board, position))

\* C22 witness: without opposing pieces, a queen whose rays are cut short by
\* two pieces of her own colour has been given her destinations, fewer than
\* on the open board.
C22_Witness ==
    /\ Fresh
    /\ no_opposing_pieces(game_data)
    /\ \E position \in DOMAIN game_data.board :
          LET board == game_data.board
          IN  /\ board[position].kind = "Queen"
              /\ Cardinality({ <<d, k>> \in (Straight \cup Diagonal) \X (1..7) :
                                 /\ contains_key(board, ray_square(position, d, k))
                                 /\ \A j \in 1..(k - 1) :
                                       ~contains_key(board, ray_square(position, d, j)) }) >= 2
              /\ contains_key(valid_moves, position)
              /\ Cardinality(valid_moves[position]) \in 10..20

\* The two forward diagonals of the pawn on position that are on the board.
pawn_diagonals(board, position) ==
    { square \in { Position(position[1] + dx, position[2] + forward(get_color(board[position]))) :
                     dx \in {-1, 1} } :
        is_valid_chess_position(square) }

\* C23: the attack set of a pawn is exactly its forward diagonals on the
\* board that do not hold a piece of the pawn's own colour: an empty diagonal
\* and one holding an opposing piece are attacked, one holding a piece of the
\* pawn's colour is not.
C23_PawnAttackSet ==
    Fresh =>
        \A position \in DOMAIN game_data.board :
            game_data.board[position].kind = "Pawn" =>
                LET board == game_data.board
                IN  generate_squares_under_attack_for_position(board, position) =
                        { square \in pawn_diagonals(board, position) :
                            contains_key(board, square) =>
                                get_color(board[square]) # get_color(board[position]) }

\* C23 as first stated: the attack set of a pawn is exactly its forward
\* diagonals on the board, whatever they hold.
C23_PawnAttackSetAnyOccupancy ==
    Fresh =>
        \A position \in DOMAIN game_data.board :
            game_data.board[position].kind = "Pawn" =>
                generate_squares_under_attack_for_position(game_data.board, position) =
                    pawn_diagonals(game_data.board, position)

\* C23 witness: a pawn with a piece of its own colour on one forward
\* diagonal, which it does not attack, and the other diagonal empty, which
\* it attacks.
C23_Witness ==
    /\ Fresh
    /\ \E position \in DOMAIN game_data.board :
          LET board == game_data.board
              attack == generate_squares_under_attack_for_position(board, position)
          IN  /\ board[position].kind = "Pawn"
              /\ \E square \in pawn_diagonals(board, position) :
                    /\ contains_key(board, square)
                    /\ get_color(board[square]) = get_color(board[position])
                    /\ square \notin attack
              /\ \E square \in pawn_diagonals(board, position) :
                    /\ ~contains_key(board, square)
                    /\ square \in attack

\* The square n ranks in front of the pawn on position.
pawn_forward(board, position, n) ==
    Position(position[1], position[2] + n * forward(get_color(board[position])))

\* C24: the pseudo-legal destinations of a pawn are the square one rank
\* forward if it is empty, the square two ranks forward if the pawn is in
\* can_move_2_squares and both forward squares are empty, and each forward
\* diagonal on the board that holds a piece of the other colour; nothing else.
\* "Empty" is "not a key of the board", as in the code: the formula asks
\* nothing about the forward squares being on the board.
C24_PawnPseudoLegal ==
    Fresh =>
        \A position \in DOMAIN game_data.board :
            game_data.board[position].kind = "Pawn" =>
                LET board == game_data.board
                    one == pawn_forward(board, position, 1)
                    two == pawn_forward(board, position, 2)
                IN  generate_moves_pawn(game_data, position) =
                        { square \in {one} : ~contains_key(board, square) }
                        \cup { square \in {two} :
                                  /\ position \in game_data.can_move_2_squares
                                  /\ ~contains_key(board, one)
                                  /\ ~contains_key(board, two) }
                        \cup { square \in pawn_diagonals(board, position) :
                                  /\ contains_key(board, square)
                                  /\ get_color(board[square]) # get_color(board[position]) }

\* C24 witness: a pawn in can_move_2_squares whose one-forward square is
\* empty and whose two-forward square is occupied gets the single step only,
\* and a pawn gets the diagonal that holds a piece of the other colour but
\* not its empty diagonal.
C24_Witness ==
    /\ Fresh
    /\ Committed
    /\ \E position \in DOMAIN game_data.board :
          LET board == game_data.board
              moves == generate_moves_pawn(game_data, position)
          IN  /\ board[position].kind = "Pawn"
              /\ position \in game_data.can_move_2_squares
              /\ contains_key(board, pawn_forward(board, position, 2))
              /\ pawn_forward(board, position, 2) \notin moves
              /\ pawn_forward(board, position, 1) \in moves
    /\ \E position \in DOMAIN game_data.board :
          LET board == game_data.board
              moves == generate_moves_pawn(game_data, position)
          IN  /\ board[position].kind = "Pawn"
              /\ \E square \in pawn_diagonals(board, position) :
                    contains_key(board, square) /\ square \in moves
              /\ \E square \in pawn_diagonals(board, position) :
                    ~contains_key(board, square) /\ square \notin moves

\* The corner a castling right of `color` is about.
castling_rook_square(color, side) ==
    Position(IF side = "king_side" THEN 7 ELSE 0, home_rank(color))

\* C25: in every state of the game, while a castling right of a colour is
\* available the king of that colour stands on file 4 of its home rank and a
\* rook of that colour stands in the corner of that side; so the right is
\* gone once that rook has been captured.
C25_RightsImplyKingAndRook ==
    \A color \in PieceColor, side \in Sides :
        available(game_data.castling, color, side) =>
            /\ contains_key(game_data.board, Position(4, home_rank(color)))
            /\ game_data.board[Position(4, home_rank(color))] = King(color)
            /\ contains_key(game_data.board, castling_rook_square(color, side))
            /\ game_data.board[castling_rook_square(color, side)] = Rook(color)

\* The number of pieces of `color` on the board.
count_pieces(board, color) ==
    Cardinality({ q \in DOMAIN board : get_color(board[q]) = color })

\* C26: committing any entry of the legal-move map leaves the number of
\* pieces of the colour of the piece that moved unchanged and the number of
\* pieces of the other colour unchanged or one less: no piece is created, at
\* most one disappears, and it is not of the mover's colour.
C26_OnlyOpposingPieceDisappears ==
    Fresh =>
        \A start \in DOMAIN valid_moves : \A end \in valid_moves[start] :
            ~postprocess_move_panics(game_data, start, end) =>
                LET board == game_data.board
                    new_board == postprocess_move(game_data, start, end).game_data.board
                    mover == get_color(board[start])
                IN  /\ count_pieces(new_board, mover) = count_pieces(board, mover)
                    /\ count_pieces(new_board, get_opposite(mover))
                          \in { count_pieces(board, get_opposite(mover)),
                                count_pieces(board, get_opposite(mover)) - 1 }

\* A promotion has been reported and the piece has not been picked yet.
promotion_pending == status = "running" /\ to_be_promoted # None

\* C27: the step that reports a pending promotion leaves valid_moves as it
\* was; while the promotion is pending the only step is the pick, which
\* commits no move, replaces the pawn on the promotion square by a queen,
\* rook, knight or bishop of the colour that just moved (the opposite of
\* to_move) and changes nothing else of the game, and only then are the legal
\* moves generated, from the game with the new piece.
C27_PromotionBeforeRegeneration ==
    [][ /\ (~promotion_pending /\ promotion_pending') => valid_moves' = valid_moves
        /\ promotion_pending =>
              LET position == unwrap(to_be_promoted)
                  mover == get_opposite(game_data.to_move)
              IN  /\ ply' = ply
                  /\ last' = last
                  /\ LastMove.piece.color = mover
                  /\ game_data.board[position] = Pawn(mover)
                  /\ \E kind \in PromotionKinds :
                        game_data' = [game_data EXCEPT
                                         !.board[position] = [kind |-> kind, color |-> mover]]
                  /\ status' # "panicked" => valid_moves' = generate_moves(game_data')
      ]_vars

\* C27 witness: the promotion of the last move has been picked: its pawn went
\* to the last rank, the square holds a piece of its colour that is not a
\* pawn, and the game goes on with freshly generated moves.
C27_Witness ==
    /\ Committed
    /\ status = "running"
    /\ to_be_promoted = None
    /\ LastMove.piece.kind = "Pawn"
    /\ LastMove.end[2] \in {0, 7}
    /\ contains_key(game_data.board, LastMove.end)
    /\ game_data.board[LastMove.end].kind \in PromotionKinds
    /\ game_data.board[LastMove.end].color = LastMove.piece.color
    /\ valid_moves = generate_moves(game_data)

\* C28: every commit is of an entry of valid_moves, made while no promotion
\* is pending and while valid_moves is generate_moves of the game_data it is
\* applied to; after a commit that leaves no promotion pending valid_moves is
\* generate_moves of the new game_data, and the loop has ended exactly when
\* that map is empty.
C28_CommitsOnlyFreshEntries ==
    /\ [](Fresh => /\ valid_moves = generate_moves(game_data)
                   /\ status = "ended" <=> DOMAIN valid_moves = {})
    /\ [][ ply' = ply + 1 =>
              /\ Fresh
              /\ status = "running"
              /\ status' # "panicked" =>
                    LET move == unwrap(last')
                    IN  /\ move.pre = game_data
                        /\ offered(valid_moves, move.start, move.end)
                        /\ game_data' =
                              postprocess_move(game_data, move.start, move.end).game_data
                        /\ to_be_promoted' = None => Fresh'
          ]_vars

\* C28 witness: a move was committed from a state reached by earlier commits,
\* the map was generated anew and is not empty, and it differs from the map
\* the move was taken from.
C28_Witness ==
    /\ Committed
    /\ ply >= 2
    /\ status = "running"
    /\ to_be_promoted = None
    /\ valid_moves = generate_moves(game_data)
    /\ valid_moves # generate_moves(LastMove.pre)
    /\ offered(generate_moves(LastMove.pre), LastMove.start, LastMove.end)

====
